---- MODULE Spec2Model ----
(***************************************************************************)
(* Speed-test backend, version 2.1.0 (src/unnamed/part_001, lines 43-323): *)
(* the rate limiter mounted on /download and /upload, the chunked          *)
(* /download scheduler (sendChunk), the duration-bounded                   *)
(* /download-progressive scheduler (sendNextChunk) and the /upload         *)
(* receiver.                                                               *)
(*                                                                         *)
(* Handlers run to completion on Node's single thread; a session's state   *)
(* lives in the closure of its handler (sentBytes, chunkCount, startTime)  *)
(* and the only state handlers share is the limiter's store, touched once, *)
(* synchronously, at admission.  The model therefore follows one request   *)
(* at a time in `cur`: a new request is taken when the previous one has    *)
(* been answered or its session has stopped.                               *)
(***************************************************************************)
EXTENDS Integers, Sequences, FiniteSets, TLC

VARIABLES now, hits, cur

vars == <<now, hits, cur>>

-----------------------------------------------------------------------------
(* Bounds of the model *)

\* the clock advances in steps of TickMs milliseconds
TickMs == 2500
\* no new clock step is taken past MaxTime unless a session waits for its deadline
MaxTime == 5000
\* rateLimit({windowMs, max}) scaled down: window length and request maximum
WindowMs == 5000
RateMax == 2
\* a session generates at most MaxChunks chunks
MaxChunks == 3

-----------------------------------------------------------------------------
(* Program constants *)

MiB == 1048576
DefaultSizeMB == 10
MaxSizeMB == 100
MinSizeMB == 1
DefaultDuration == 5000
ProgChunkSize == MiB

Clients == {"A", "B"}

\* a query parameter after parseInt: <<>> when absent or not a number, <<n>> otherwise
SizeQueries == {<<>>, <<-1>>, <<0>>, <<1>>, <<2>>, <<100>>, <<101>>}
ChunkQueries == {<<>>, <<-1>>, <<0>>, <<3>>, <<786432>>, <<1048576>>, <<67108864>>}
DurationQueries == {<<>>, <<-1>>, <<0>>, <<2500>>, <<5000>>}

\* request bodies as the sequence of writes the client makes (bytes per write)
Bodies == {<<>>, <<5>>, <<2, 3>>}
ContentTypes == {"application/octet-stream", "text/plain"}
\* what the body parser leaves in req.body when it does not parse the request:
\* an empty object (body-parser 1.x) or nothing (body-parser 2.x)
UnparsedBodies == {"object", "undefined"}

DownloadPath == <<"download">>
ProgressivePath == <<"download-progressive">>
UploadPath == <<"upload">>

\* states of a session.  Completed: res.end() was called; Aborted: a write
\* callback received an error; Failed: the generator threw inside the route
\* handler and the error middleware answered, which ends the response
Active == {"Pending", "Streaming", "Draining"}
Terminal == {"Completed", "Aborted", "Failed"}

-----------------------------------------------------------------------------
(* Pure helpers *)

\* parseInt(q) || d : NaN and 0 are both falsy
OrDefault(q, d) == IF Len(q) = 0 THEN d ELSE IF q[1] = 0 THEN d ELSE q[1]

\* Math.ceil(a / b) for a >= 0 and b # 0
Ceil(a, b) == IF b > 0 THEN -((-a) \div b) ELSE -(a \div (-b))

ChunkCount(bufferSize, chunkSize) == Ceil(bufferSize, chunkSize)

Min(a, b) == IF a < b THEN a ELSE b

CurrentChunkSize(chunkSize, remainingBytes) == Min(chunkSize, remainingBytes)

\* generateRandomBuffer(n): Buffer.alloc(n) throws for n < 0, and
\* writeUInt32LE(v, i) throws when fewer than 4 bytes remain at offset i
GeneratorThrows(n) == n < 0 \/ n % 4 # 0

AllSent(chunkIndex, chunkCount) == chunkIndex >= chunkCount

HasMoreChunks(chunkIndex, chunkCount) == chunkIndex < chunkCount - 1

\* the operands of the subtraction exchanged
DeadlineReachedSwapped(t, startTime, duration) == startTime - t >= duration

DeadlineReached(t, startTime, duration) == t - startTime >= duration

RECURSIVE SumSeq(_)
SumSeq(s) == IF s = <<>> THEN 0 ELSE Head(s) + SumSeq(Tail(s))

-----------------------------------------------------------------------------
(* Rate limiter: one fixed window per client key.  The counting is done by  *)
(* the store of express-rate-limit; the source configures windowMs and max. *)

WindowExpired(w, t) == w.count = 0 \/ t >= w.resetTime

Hit(w, t) ==
  IF WindowExpired(w, t)
  THEN [count |-> 1, resetTime |-> t + WindowMs]
  ELSE [count |-> w.count + 1, resetTime |-> w.resetTime]

\* the comparison off by one: request number max is already refused
AllowedBelowMax(w) == w.count < RateMax

Allowed(w) == w.count <= RateMax

RetryAfter(w, t) == w.resetTime - t

\* app.use(mount, limiter): the mount path matches whole leading path segments
MountMatches(mount, path) ==
  /\ Len(path) >= Len(mount)
  /\ SubSeq(path, 1, Len(mount)) = mount

LimiterMounts == {DownloadPath, UploadPath}

Limited(path) == \E m \in LimiterMounts : MountMatches(m, path)

Admission(c, path) ==
  IF Limited(path)
  THEN IF Allowed(Hit(hits[c], now)) THEN "admitted" ELSE "rejected"
  ELSE "unchecked"

HitsAfter(c, path) ==
  IF Limited(path) THEN [hits EXCEPT ![c] = Hit(@, now)] ELSE hits

\* the model follows a client up to its first rejected request of a window
WithinCap(c, path) == Limited(path) => Hit(hits[c], now).count <= RateMax + 1

-----------------------------------------------------------------------------
(* The request being followed *)

Idle ==
  [route |-> "none", client |-> "A",
   sizeQ |-> <<>>, chunkQ |-> <<>>, durQ |-> <<>>,
   limited |-> "unchecked", status |-> 0, error |-> "none", detail |-> FALSE,
   retryAfter |-> 0, headerLen |-> <<>>, started |-> FALSE,
   bufferSize |-> 0, chunkSize |-> 0, chunkCount |-> 0, sentBytes |-> 0,
   timer |-> <<>>, inflight |-> <<>>, gen |-> 0, wire |-> 0, log |-> <<>>,
   ended |-> 0, closed |-> FALSE, state |-> "None",
   startTime |-> 0, duration |-> 0,
   bodyLen |-> 0, received |-> <<>>]

\* a new request is taken when the previous one is finished; requests stop
\* arriving once the clock has passed MaxTime
SlotFree == cur.state \notin Active /\ now <= MaxTime

\* the limiter's 429 answer
TooMany(base, c) ==
  [base EXCEPT !.status = 429, !.error = "rate",
               !.retryAfter = RetryAfter(Hit(hits[c], now), now)]

\* the error-handling middleware's answer to a fault thrown inside a route handler
ErrorMiddleware(s) ==
  [s EXCEPT !.status = 500, !.error = "internal", !.detail = FALSE,
            !.timer = <<>>, !.ended = @ + 1, !.state = "Failed"]

\* sendChunk with the next chunk scheduled right after res.write instead of
\* from the write's callback
sendChunkEager(s, chunkIndex, sync, accepted) ==
  IF AllSent(chunkIndex, s.chunkCount)
  THEN [s EXCEPT !.timer = <<>>, !.ended = @ + 1, !.state = "Completed"]
  ELSE [s EXCEPT !.timer = IF HasMoreChunks(chunkIndex, s.chunkCount)
                           THEN <<chunkIndex + 1>> ELSE <<>>,
                 !.gen = @ + 1,
                 !.inflight = Append(@, [idx |-> chunkIndex,
                                         size |-> CurrentChunkSize(s.chunkSize,
                                                    s.bufferSize - s.sentBytes)]),
                 !.state = IF accepted THEN "Streaming" ELSE "Draining"]

\* sendChunk(chunkIndex); sync is TRUE when called from the route handler,
\* accepted is the return value of res.write
sendChunk(s, chunkIndex, sync, accepted) ==
  IF AllSent(chunkIndex, s.chunkCount)
  THEN [s EXCEPT !.timer = <<>>, !.ended = @ + 1, !.state = "Completed"]
  ELSE LET currentChunkSize ==
             CurrentChunkSize(s.chunkSize, s.bufferSize - s.sentBytes)
       IN IF GeneratorThrows(currentChunkSize)
          THEN IF sync THEN ErrorMiddleware(s)
               ELSE [s EXCEPT !.timer = <<>>, !.state = "Crashed"]
          ELSE [s EXCEPT !.timer = <<>>, !.gen = @ + 1,
                         !.inflight = Append(@, [idx |-> chunkIndex,
                                                 size |-> currentChunkSize]),
                         !.state = IF accepted THEN "Streaming" ELSE "Draining"]

\* sendNextChunk(); t is Date.now(), accepted is the return value of res.write
sendNextChunk(s, t, accepted) ==
  IF DeadlineReached(t, s.startTime, s.duration)
  THEN [s EXCEPT !.timer = <<>>, !.ended = @ + 1, !.state = "Completed"]
  ELSE [s EXCEPT !.timer = <<>>, !.gen = @ + 1,
                 !.inflight = Append(@, [idx |-> s.gen, size |-> ProgChunkSize]),
                 !.state = IF accepted THEN "Streaming" ELSE "Draining"]

\* express.raw({type: 'application/octet-stream'}): the body's writes are
\* concatenated into one Buffer when the content type matches; otherwise
\* req.body is what the parser leaves behind
ParseBody(ctype, body, unparsed) ==
  IF ctype = "application/octet-stream"
  THEN [kind |-> "buffer", length |-> SumSeq(body)]
  ELSE [kind |-> unparsed, length |-> 0]

-----------------------------------------------------------------------------
(* Actions *)

Init ==
  /\ now = 0
  /\ hits = [c \in Clients |-> [count |-> 0, resetTime |-> 0]]
  /\ cur = Idle

\* GET /download?size=..&chunk=..
Download(c, sq, cq, accepted) ==
  /\ SlotFree
  /\ WithinCap(c, DownloadPath)
  /\ hits' = HitsAfter(c, DownloadPath)
  /\ UNCHANGED now
  /\ LET size == OrDefault(sq, DefaultSizeMB)
         chunkSize == OrDefault(cq, 1024 * 1024)
         bufferSize == size * 1024 * 1024
         adm == Admission(c, DownloadPath)
         base == [Idle EXCEPT !.route = "download", !.client = c,
                              !.sizeQ = sq, !.chunkQ = cq, !.limited = adm]
     IN IF adm = "rejected" THEN cur' = TooMany(base, c)
        ELSE IF size > MaxSizeMB
        THEN cur' = [base EXCEPT !.status = 400, !.error = "max"]
        ELSE IF size < MinSizeMB
        THEN cur' = [base EXCEPT !.status = 400, !.error = "min"]
        ELSE /\ ChunkCount(bufferSize, chunkSize) <= MaxChunks
             /\ cur' = sendChunk(
                  [base EXCEPT !.status = 200, !.headerLen = <<bufferSize>>,
                               !.started = TRUE, !.state = "Pending",
                               !.bufferSize = bufferSize,
                               !.chunkSize = chunkSize,
                               !.chunkCount = ChunkCount(bufferSize, chunkSize)],
                  0, TRUE, accepted)

\* setImmediate(() => sendChunk(chunkIndex + 1)) fires
SendChunk(accepted) ==
  /\ cur.route = "download"
  /\ cur.timer # <<>>
  /\ cur' = sendChunk(cur, cur.timer[1], FALSE, accepted)
  /\ UNCHANGED <<now, hits>>

\* the callback of res.write in sendChunk
WriteCallback ==
  /\ cur.route = "download"
  /\ cur.inflight # <<>>
  /\ LET w == Head(cur.inflight)
         rest == [cur EXCEPT !.inflight = Tail(@)]
     IN IF cur.closed
        THEN cur' = [rest EXCEPT !.state = "Aborted"]
        ELSE LET sent == [rest EXCEPT !.sentBytes = @ + w.size,
                                      !.wire = @ + w.size,
                                      !.log = Append(@, w.idx)]
             IN IF HasMoreChunks(w.idx, cur.chunkCount)
                THEN cur' = [sent EXCEPT !.timer = <<w.idx + 1>>,
                                         !.state = "Streaming"]
                ELSE cur' = [sent EXCEPT !.ended = @ + 1,
                                         !.state = "Completed"]
  /\ UNCHANGED <<now, hits>>

\* GET /download-progressive?duration=..
Progressive(c, dq, accepted) ==
  /\ SlotFree
  /\ WithinCap(c, ProgressivePath)
  /\ hits' = HitsAfter(c, ProgressivePath)
  /\ UNCHANGED now
  /\ LET duration == OrDefault(dq, DefaultDuration)
         adm == Admission(c, ProgressivePath)
         base == [Idle EXCEPT !.route = "progressive", !.client = c,
                              !.durQ = dq, !.limited = adm]
     IN IF adm = "rejected" THEN cur' = TooMany(base, c)
        ELSE cur' = sendNextChunk(
               [base EXCEPT !.status = 200, !.started = TRUE,
                            !.state = "Pending", !.chunkSize = ProgChunkSize,
                            !.startTime = now, !.duration = duration],
               now, accepted)

\* setImmediate(sendNextChunk) fires
SendNextChunk(accepted) ==
  /\ cur.route = "progressive"
  /\ cur.timer # <<>>
  /\ DeadlineReached(now, cur.startTime, cur.duration) \/ cur.gen < MaxChunks
  /\ cur' = sendNextChunk(cur, now, accepted)
  /\ UNCHANGED <<now, hits>>

\* the callback of res.write in sendNextChunk
ProgWriteCallback ==
  /\ cur.route = "progressive"
  /\ cur.inflight # <<>>
  /\ LET w == Head(cur.inflight)
         rest == [cur EXCEPT !.inflight = Tail(@)]
     IN IF cur.closed
        THEN cur' = [rest EXCEPT !.state = "Aborted"]
        ELSE cur' = [rest EXCEPT !.wire = @ + w.size,
                                 !.log = Append(@, w.idx),
                                 !.timer = <<w.idx + 1>>,
                                 !.state = "Streaming"]
  /\ UNCHANGED <<now, hits>>

\* POST /upload
Upload(c, ctype, body, unparsed) ==
  /\ SlotFree
  /\ WithinCap(c, UploadPath)
  /\ hits' = HitsAfter(c, UploadPath)
  /\ UNCHANGED now
  /\ LET adm == Admission(c, UploadPath)
         base == [Idle EXCEPT !.route = "upload", !.client = c,
                              !.limited = adm, !.bodyLen = SumSeq(body)]
         reqBody == ParseBody(ctype, body, unparsed)
     IN IF adm = "rejected" THEN cur' = TooMany(base, c)
        ELSE IF reqBody.kind = "undefined"
        THEN \* req.body.length throws; the handler's catch block answers
             cur' = [base EXCEPT !.status = 500, !.error = "upload",
                                 !.detail = TRUE]
        ELSE IF reqBody.kind = "object"
        THEN \* ({}).length is undefined and is dropped from the JSON answer
             cur' = [base EXCEPT !.status = 200]
        ELSE cur' = [base EXCEPT !.status = 200,
                                 !.received = <<reqBody.length>>]

\* the peer closes the connection of the running session
Disconnect ==
  /\ cur.state \in Active
  /\ ~cur.closed
  /\ cur' = [cur EXCEPT !.closed = TRUE]
  /\ UNCHANGED <<now, hits>>

Tick ==
  /\ \/ now < MaxTime
     \/ /\ cur.route = "progressive"
        /\ cur.state \in Active
        /\ now - cur.startTime < cur.duration
  /\ now' = now + TickMs
  /\ UNCHANGED <<hits, cur>>

Next ==
  \/ \E c \in Clients, sq \in SizeQueries, cq \in ChunkQueries, a \in BOOLEAN :
       Download(c, sq, cq, a)
  \/ \E a \in BOOLEAN : SendChunk(a)
  \/ WriteCallback
  \/ \E c \in Clients, dq \in DurationQueries, a \in BOOLEAN :
       Progressive(c, dq, a)
  \/ \E a \in BOOLEAN : SendNextChunk(a)
  \/ ProgWriteCallback
  \/ \E c \in Clients, ct \in ContentTypes, b \in Bodies, u \in UnparsedBodies :
       Upload(c, ct, b, u)
  \/ Disconnect
  \/ Tick

Spec == Init /\ [][Next]_vars

\* the event loop runs every scheduled callback, the sink acknowledges or
\* fails every write, and the clock advances
Fairness ==
  /\ WF_vars(\E a \in BOOLEAN : SendChunk(a))
  /\ WF_vars(WriteCallback)
  /\ WF_vars(\E a \in BOOLEAN : SendNextChunk(a))
  /\ WF_vars(ProgWriteCallback)
  /\ WF_vars(Tick)

FairSpec == Init /\ [][Next]_vars /\ Fairness

-----------------------------------------------------------------------------
(* Claims *)

\* C1: a completed GET /download with a valid size (1..100 MB) has delivered
\* exactly size x 1MiB payload bytes to the sink, the value declared in
\* Content-Length, whatever chunk value the request carries.
C1_CompletedDeliversDeclaredSize ==
  ( /\ cur.route = "download"
    /\ cur.state = "Completed"
    /\ cur.sizeQ # <<>>
    /\ cur.sizeQ[1] >= MinSizeMB /\ cur.sizeQ[1] <= MaxSizeMB )
  => /\ cur.wire = cur.sizeQ[1] * MiB
     /\ cur.headerLen = <<cur.sizeQ[1] * MiB>>

\* C2: no transfer session is started and no upload is measured for a request
\* the rate limiter has not admitted.
C2_LimiterGatesSessionsAndUploads ==
  ( \/ cur.started
    \/ (cur.route = "upload" /\ cur.status \in {200, 500}) )
  => cur.limited = "admitted"

\* C3: a GET /download whose requested size is below 1 or above 100 (size 0
\* and negative sizes included) is answered 400 naming the violated bound,
\* with no session, no download header and no payload byte.
C3_OutOfBoundsSizeRejected ==
  ( /\ cur.route = "download"
    /\ cur.limited = "admitted"
    /\ cur.sizeQ # <<>>
    /\ (cur.sizeQ[1] < MinSizeMB \/ cur.sizeQ[1] > MaxSizeMB) )
  => /\ cur.status = 400
     /\ cur.error = (IF cur.sizeQ[1] > MaxSizeMB THEN "max" ELSE "min")
     /\ ~cur.started
     /\ cur.headerLen = <<>>
     /\ cur.gen = 0 /\ cur.wire = 0

\* C4: in every step in which the limiter counts a request of client c: if
\* c's window is running and holds fewer than max requests the request is
\* allowed; if it already holds max requests the request is rejected with
\* status 429 and a positive retry-after; if c has no running window (none
\* yet, or the window length has elapsed) the request is allowed and c's
\* counter becomes 1; and no other client's window changes.
C4_WindowAdmission ==
  [][ \A c \in Clients :
        hits'[c] # hits[c] =>
          LET w == hits[c]
              running == w.count > 0 /\ now < w.resetTime
          IN /\ cur'.client = c
             /\ (running /\ w.count < RateMax) =>
                  (cur'.limited = "admitted" /\ hits'[c].count = w.count + 1)
             /\ (running /\ w.count >= RateMax) =>
                  ( /\ cur'.limited = "rejected"
                    /\ cur'.status = 429
                    /\ cur'.retryAfter > 0
                    /\ ~cur'.started )
             /\ ~running =>
                  (cur'.limited = "admitted" /\ hits'[c].count = 1)
             /\ \A d \in Clients \ {c} : hits'[d] = hits[d] ]_vars

\* a client was rejected as request max+1 of its window and that window has
\* since elapsed
C4_Witness ==
  \E c \in Clients : hits[c].count = RateMax + 1 /\ now >= hits[c].resetTime

\* C5: an admitted POST /upload with a body of N bytes reports N received
\* bytes, whatever the content type and however many writes the body took.
C5_UploadReportsBodyLength ==
  (cur.route = "upload" /\ cur.limited = "admitted")
  => cur.received = <<cur.bodyLen>>

\* C6: on GET /download-progressive a chunk is generated only while the
\* elapsed time is below the requested duration, and end-of-stream is issued
\* only when the elapsed time has reached the requested duration.
C6_DeadlineBoundsStream ==
  [][ (cur'.route = "progressive" /\ cur'.started) =>
        LET requested == IF cur'.durQ = <<>> THEN cur'.duration
                         ELSE cur'.durQ[1]
            elapsed == now' - cur'.startTime
            genBefore == IF cur.state \in Active THEN cur.gen ELSE 0
            endedBefore == IF cur.state \in Active THEN cur.ended ELSE 0
        IN /\ cur'.gen > genBefore => elapsed < requested
           /\ cur'.ended > endedBefore => elapsed >= requested ]_vars

\* C7: every 500 answer is generic (it carries no exception message) and no
\* fault escapes the request boundary.
C7_FaultsAnsweredGenerically ==
  /\ cur.status = 500 => ~cur.detail
  /\ cur.state # "Crashed"

\* C8: a session has at most one chunk buffer in flight, no next chunk is
\* scheduled while a write is pending, and the chunks acknowledged so far are
\* chunks 0, 1, 2, ... in order, the pending one being the next, so none is
\* skipped or written twice.
C8_OneChunkInFlight ==
  cur.started =>
    /\ Len(cur.inflight) <= 1
    /\ cur.timer # <<>> => cur.inflight = <<>>
    /\ \A j \in 1..Len(cur.log) : cur.log[j] = j - 1
    /\ cur.inflight # <<>> => cur.inflight[1].idx = Len(cur.log)
    /\ cur.timer # <<>> => cur.timer[1] = Len(cur.log)
    /\ cur.gen - Len(cur.log) - Len(cur.inflight)
         = (IF cur.state = "Aborted" THEN 1 ELSE 0)

\* a second chunk is pending under backpressure after the first was acknowledged
C8_Witness ==
  /\ cur.started
  /\ cur.state = "Draining"
  /\ Len(cur.log) >= 1
  /\ Len(cur.inflight) = 1

\* C9: once the connection of a session is closed, no further chunk is
\* generated or written and no end-of-stream is issued for that session.
C9_NoActivityAfterClose ==
  [][ (cur.closed /\ cur'.closed) =>
        (cur'.gen = cur.gen /\ cur'.ended = cur.ended) ]_vars

====
